---- MODULE Spec2Model ----
(***************************************************************************)
(* State-machine model of the APOD gallery page script: the fetch handler  *)
(* (fetchAndShow), the date filter (applyFilter, transitionToGallery), the *)
(* renderer (buildGallery) and the timers they await.                      *)
(*                                                                         *)
(* One action is one event-loop turn: a DOM event handler run up to its    *)
(* first await, or the continuation of an async function from one await to *)
(* the next.                                                               *)
(***************************************************************************)
EXTENDS Integers, Sequences, FiniteSets, TLC

\* ------------------------------------------------------------- bounds
\* pending 380 ms fade timers the model keeps at once
MaxTimers == 1
\* fetchAndShow closures the model can hold at once
MaxInFlight == 2
\* longest record sequence of the filter-only specification
MaxLen == 2

\* ------------------------------------------------- program constants
MIN_LOADING_MS == 1200
FADE_MS == 380

LoadingLabel == "Loading..."
DefaultLabel == "Fetch Space Images"
NotOkMessage == "Network response was not ok"
RejectMessage == "Failed to fetch"
ParseMessage == "Unexpected token in JSON"
NullMessage == "Cannot convert undefined or null to object"

\* ------------------------------------------------------------ records
\* A date string "YYYY-MM-DD" is the tuple <<Y, M, D>>; the empty string (an
\* empty date input, a record without a date) is the empty tuple.
EmptyStr == <<>>

RecA == [title |-> "A", date |-> <<2024, 1, 1>>, media_type |-> "image",
         url |-> "a.jpg", hdurl |-> "", explanation |-> "about A"]
RecB == [title |-> "B", date |-> <<2024, 1, 5>>, media_type |-> "video",
         url |-> "b.mp4", hdurl |-> "", explanation |-> "about B"]
RecC == [title |-> "C", date |-> <<2024, 1, 5>>, media_type |-> "image",
         url |-> "c.jpg", hdurl |-> "c_hd.jpg", explanation |-> "about C"]
RecN == [title |-> "N", date |-> EmptyStr, media_type |-> "image",
         url |-> "n.jpg", hdurl |-> "n_hd.jpg", explanation |-> ""]
RecD == [title |-> "D", date |-> <<2023, 12, 31>>, media_type |-> "image",
         url |-> "d.jpg", hdurl |-> "", explanation |-> "about D"]

\* values the two date inputs can hold
DateInputs == {EmptyStr, <<2024, 1, 1>>, <<2024, 1, 5>>}

\* ------------------------------------------------------- new Date(s)
\* The time value of a Date, in days (the code's unit is the millisecond;
\* every date-only string is UTC midnight, a whole number of days).
NaN == [nan |-> TRUE, t |-> 0]

IsLeap(y) == (y % 4 = 0 /\ y % 100 # 0) \/ y % 400 = 0

DaysInMonth(y, m) ==
    IF m = 2 THEN (IF IsLeap(y) THEN 29 ELSE 28)
    ELSE IF m \in {4, 6, 9, 11} THEN 30 ELSE 31

DaysFromCivil(y, m, d) ==
    LET yy  == IF m <= 2 THEN y - 1 ELSE y
        era == yy \div 400
        yoe == yy - era * 400
        mp  == IF m > 2 THEN m - 3 ELSE m + 9
        doy == (153 * mp + 2) \div 5 + d - 1
        doe == yoe * 365 + yoe \div 4 - yoe \div 100 + doy
    IN  era * 146097 + doe - 719468

NewDate(s) ==
    IF Len(s) = 3 /\ s[2] \in 1..12 /\ s[3] \in 1..DaysInMonth(s[1], s[2])
    THEN [nan |-> FALSE, t |-> DaysFromCivil(s[1], s[2], s[3])]
    ELSE NaN

\* a < b on two Dates: numeric on the time values, false when either is NaN
DateLt(a, b) == ~a.nan /\ ~b.nan /\ a.t < b.t

\* ------------------------------------------------------ applyFilter
NoBound == [null |-> TRUE, v |-> NaN]

\* startVal ? new Date(startVal) : null
ParseBound(val) ==
    IF val # EmptyStr THEN [null |-> FALSE, v |-> NewDate(val)] ELSE NoBound

SwapBounds_keep(start, end) == <<start, end>>

\* if (start && end && start > end) [start, end] = [end, start]
SwapBounds(start, end) ==
    IF ~start.null /\ ~end.null /\ DateLt(end.v, start.v)
    THEN <<end, start>> ELSE <<start, end>>

ImagesOnly_all(items) == items

\* items.filter(it => it.media_type === 'image')
ImagesOnly(items) == SelectSeq(items, LAMBDA it : it.media_type = "image")

\* the predicate of lastFetchedItems.filter(...)
KeepInRange(it, start, end) ==
    /\ it.media_type = "image"
    /\ ~(~start.null /\ DateLt(NewDate(it.date), start.v))
    /\ ~(~end.null /\ DateLt(end.v, NewDate(it.date)))

\* the sequence applyFilter computes from the two input values
FilterRange(items, startVal, endVal) ==
    LET b == SwapBounds(ParseBound(startVal), ParseBound(endVal))
    IN  SelectSeq(items, LAMBDA it : KeepInRange(it, b[1], b[2]))

\* --------------------------------------------------- response bodies
\* A body is a JSON array of records, a JSON object (its members in text
\* order: keys[i] names items[i]), the JSON value null, or malformed text.
ArrayBody(items) == [kind |-> "array", items |-> items, keys |-> <<>>]
ObjectBody(keys, items) == [kind |-> "object", items |-> items, keys |-> keys]
NullBody == [kind |-> "null", items |-> <<>>, keys |-> <<>>]
MalformedBody == [kind |-> "malformed", items |-> <<>>, keys |-> <<>>]
NoBody == [kind |-> "none", items |-> <<>>, keys |-> <<>>]

\* the bodies the endpoint answers with
Feeds ==
    { ArrayBody(<<RecA, RecB>>),
      ArrayBody(<<>>),
      ObjectBody(<<"b", "1">>, <<RecN, RecA>>),
      NullBody,
      MalformedBody }

\* property keys that are array indices, in ascending numeric order
IndexKeys == <<"0", "1", "2">>

IsIndexKey(k) == \E i \in 1..Len(IndexKeys) : IndexKeys[i] = k

\* Object.values(data): own properties in property order, the array-index keys
\* first in ascending numeric order, then the other keys in insertion order
ObjectValues(keys, items) ==
    LET pos     == [j \in 1..Len(keys) |-> j]
        present == SelectSeq(IndexKeys, LAMBDA k : \E j \in 1..Len(keys) : keys[j] = k)
        idxPos  == [i \in 1..Len(present) |->
                       CHOOSE j \in 1..Len(keys) : keys[j] = present[i]]
        strPos  == SelectSeq(pos, LAMBDA j : ~IsIndexKey(keys[j]))
        order   == idxPos \o strPos
    IN  [n \in 1..Len(order) |-> items[order[n]]]

\* Array.isArray(data) ? data : Object.values(data)
Normalize(body) ==
    IF body.kind = "array" THEN body.items
    ELSE ObjectValues(body.keys, body.items)

\* ------------------------------------------------------------ the grid
\* gallery.innerHTML: a placeholder (ph names which, msg the error text) or
\* the cards in order; ph = "none" means no .placeholder element.
Placeholder(kind, msg) == [ph |-> kind, msg |-> msg, cards |-> <<>>]

Card(item) ==
    [src |-> item.url, caption |-> <<item.title, item.date>>, item |-> item]

Cards(images) == [ph |-> "none", msg |-> "", cards |-> [i \in 1..Len(images) |-> Card(images[i])]]

\* gallery.querySelector('.placeholder')
HasPlaceholder(g) == g.ph # "none"

buildGallery_unfiltered(items) ==
    IF items = <<>> THEN Placeholder("noimages", "") ELSE Cards(items)

buildGallery_emptyGrid(items) ==
    Cards(SelectSeq(items, LAMBDA it : it.media_type = "image"))

buildGallery(items) ==
    LET images == SelectSeq(items, LAMBDA it : it.media_type = "image")
    IN  IF images = <<>> THEN Placeholder("noimages", "") ELSE Cards(images)

\* ----------------------------------------------------------- the state
VARIABLES
    getImageBtnDisabled,  \* getImageBtn.disabled
    getImageBtnText,      \* getImageBtn.textContent
    gallery,              \* gallery.innerHTML
    galleryBusy,          \* gallery has aria-busy="true"
    lastFetchedItems,     \* the cache: null or the last fetched items
    startVal,             \* startDateInput.value
    endVal,               \* endDateInput.value
    fetches,              \* the fetchAndShow calls in flight, by slot
    timers,               \* the pending 380 ms timers, oldest first
    modal,                \* the overlay: its class, aria-hidden and the slots
    latest                \* history: the action triggered last, what it wrote

vars == <<getImageBtnDisabled, getImageBtnText, gallery, galleryBusy,
          lastFetchedItems, startVal, endVal, fetches, timers, modal, latest>>

Slots == 1..MaxInFlight

NullItems == [isNull |-> TRUE, items |-> <<>>]
Items(seq) == [isNull |-> FALSE, items |-> seq]

\* A fetchAndShow call: where it is suspended (pc), whether it is in the try
\* or the catch block, and its locals.  raced and cacheAtClick are history:
\* raced says that another handler wrote the grid or the cache since this
\* call began its minimum-loading wait; cacheAtClick is the cache at the click.
Idle ==
    [pc |-> "idle", branch |-> "try", originalBtnText |-> "", body |-> NoBody,
     items |-> <<>>, errMessage |-> "", raced |-> FALSE, cacheAtClick |-> NullItems]

Active(s) == fetches[s].pc # "idle"

\* A pending 380 ms timer: owner 0 is a transitionToGallery call holding its
\* items, owner s > 0 is the fade wait of fetch s.  old: set before the click
\* of the latest fetch.  raced (history): another handler wrote the grid or
\* the cache since the timer was set.
Timer(owner, items) == [owner |-> owner, items |-> items, old |-> FALSE, raced |-> FALSE]

MarkRaced(ts) == [i \in 1..Len(ts) |-> [ts[i] EXCEPT !.raced = TRUE]]
MarkOld(ts) == [i \in 1..Len(ts) |-> [ts[i] EXCEPT !.old = TRUE]]
MarkFetches(fs) ==
    [s \in Slots |-> IF fs[s].pc = "minwait" THEN [fs[s] EXCEPT !.raced = TRUE] ELSE fs[s]]

FilterTimers == Len(SelectSeq(timers, LAMBDA t : t.owner = 0))

\* A 380 ms timer set before the click has fired by the time 1200 ms have
\* passed since the click.
OldTimersFired ==
    FADE_MS < MIN_LOADING_MS => \A i \in 1..Len(timers) : ~timers[i].old

\* ---------------------------------------------------------- the overlay
\* the overlay before it was ever opened
ModalClosed ==
    [show |-> FALSE, ariaHidden |-> TRUE, src |-> "", alt |-> "", title |-> "",
     date |-> EmptyStr, explanation |-> ""]

\* a || b on two strings
OrElse(a, b) == IF a # "" THEN a ELSE b

openModal_urlOnly(item) ==
    [show |-> TRUE, ariaHidden |-> FALSE, src |-> item.url,
     alt |-> OrElse(item.title, "NASA image"), title |-> item.title,
     date |-> item.date, explanation |-> item.explanation]

openModal(item) ==
    [show |-> TRUE, ariaHidden |-> FALSE,
     src |-> OrElse(item.hdurl, OrElse(item.url, "")),
     alt |-> OrElse(item.title, "NASA image"),
     title |-> OrElse(item.title, ""),
     date |-> item.date,
     explanation |-> OrElse(item.explanation, "")]

closeModal_keepsImage(m) == [m EXCEPT !.show = FALSE, !.ariaHidden = TRUE]

closeModal(m) == [m EXCEPT !.show = FALSE, !.ariaHidden = TRUE, !.src = ""]

\* ------------------------------------------------- the latest action
\* latest (history) names the user action triggered last (a click on the fetch
\* button, an applyFilter call), says whether its own render or placeholder is
\* done, and holds what it has written to the grid so far.  It is kept by
\* SpecHist only; under the other specifications it stays as Init sets it.
Unwritten == [ph |-> "unwritten", msg |-> "", cards |-> <<>>]

\* no action yet
NoAction == [by |-> "none", done |-> TRUE, grid |-> Unwritten]

\* the fetch button was clicked: the loading placeholder is written, the
\* result is to come
FetchTriggered == [by |-> "fetch", done |-> FALSE, grid |-> gallery']

\* applyFilter ran: it wrote the grid at once, or left a 380 ms timer behind
FilterTriggered ==
    IF Len(timers') > Len(timers)
    THEN [by |-> "filter", done |-> FALSE, grid |-> Unwritten]
    ELSE [by |-> "filter", done |-> TRUE, grid |-> gallery']

\* a fetchAndShow step: when it ends the call and the call is the latest
\* action, the latest action has rendered
FetchStepped ==
    IF latest.by = "fetch" /\ ~latest.done
          /\ \E s \in Slots : fetches[s].pc # "idle" /\ fetches'[s].pc = "idle"
    THEN [latest EXCEPT !.done = TRUE, !.grid = gallery']
    ELSE latest

\* a transitionToGallery timer fired: it is the latest action's when the
\* latest action is a filter that waits and no younger filter timer is left
FilterRendered ==
    IF latest.by = "filter" /\ ~latest.done
          /\ \A i \in 1..Len(timers') : timers'[i].owner # 0
    THEN [latest EXCEPT !.done = TRUE, !.grid = gallery']
    ELSE latest

Init ==
    /\ modal = ModalClosed
    /\ getImageBtnDisabled = FALSE
    /\ getImageBtnText \in {DefaultLabel, "Get Space Images"}
    /\ gallery \in {Placeholder("initial", ""), Cards(<<>>)}
    /\ galleryBusy = FALSE
    /\ lastFetchedItems = NullItems
    /\ startVal = EmptyStr
    /\ endVal = EmptyStr
    /\ fetches = [s \in Slots |-> Idle]
    /\ timers = <<>>
    /\ latest = NoAction

\* ------------------------------------------------------- fetchAndShow
SetFetch(fs, s, f) == [fs EXCEPT ![s] = f]

Restore_defaultLabel(f) == DefaultLabel

\* originalBtnText || 'Fetch Space Images'
Restore(f) == IF f.originalBtnText # "" THEN f.originalBtnText ELSE DefaultLabel

Finally_tryOnly(f) ==
    /\ getImageBtnDisabled' = (f.branch = "catch")
    /\ getImageBtnText' = IF f.branch = "catch" THEN getImageBtnText ELSE Restore(f)
    /\ galleryBusy' = (f.branch = "catch")

\* the finally block
Finally(f) ==
    /\ getImageBtnDisabled' = FALSE
    /\ getImageBtnText' = Restore(f)
    /\ galleryBusy' = FALSE

Rendered_errorLost(f) ==
    IF f.branch = "try" THEN buildGallery(f.items) ELSE gallery

\* what the call writes to the grid when it ends: buildGallery(items), or the
\* error placeholder of the catch block
Rendered(f) ==
    IF f.branch = "try" THEN buildGallery(f.items)
    ELSE Placeholder("error", f.errMessage)

\* The last turn of call s: the render, then the finally block.  cache and ts
\* are the cache and the timers as this turn has them so far.
Complete(s, f, cache, ts) ==
    /\ gallery' = Rendered(f)
    /\ Finally(f)
    /\ fetches' = SetFetch(MarkFetches(fetches), s, Idle)
    /\ timers' = MarkRaced(ts)
    /\ lastFetchedItems' = cache
    /\ UNCHANGED <<startVal, endVal, modal>>

\* From the end of the minimum-loading wait: fade the placeholder out and
\* wait 380 ms if the grid holds one, else render at once.  wrote: this turn
\* has written the cache.
AfterMinWait(s, f, cache, wrote) ==
    IF HasPlaceholder(gallery)
    THEN /\ fetches' = SetFetch(IF wrote THEN MarkFetches(fetches) ELSE fetches,
                                s, [f EXCEPT !.pc = "fade", !.raced = FALSE])
         /\ timers' = Append(IF wrote THEN MarkRaced(timers) ELSE timers, Timer(s, <<>>))
         /\ lastFetchedItems' = cache
         /\ UNCHANGED <<getImageBtnDisabled, getImageBtnText, gallery, galleryBusy,
                        startVal, endVal, modal>>
    ELSE Complete(s, f, cache, timers)

\* From the elapsed-time test: wait for the rest of MIN_LOADING_MS if some is
\* left (remaining > 0), else go on in the same turn.
AfterBody(s, f, cache, wrote) ==
    \/ /\ fetches' = SetFetch(IF wrote THEN MarkFetches(fetches) ELSE fetches,
                              s, [f EXCEPT !.pc = "minwait", !.raced = FALSE])
       /\ timers' = IF wrote THEN MarkRaced(timers) ELSE timers
       /\ lastFetchedItems' = cache
       /\ UNCHANGED <<getImageBtnDisabled, getImageBtnText, gallery, galleryBusy,
                      startVal, endVal, modal>>
    \/ /\ OldTimersFired
       /\ AfterMinWait(s, f, cache, wrote)

Throw(f, message) == [f EXCEPT !.branch = "catch", !.errMessage = message]

FreeSlot == CHOOSE s \in Slots : ~Active(s) /\ \A r \in Slots : r < s => Active(r)

FetchClick_notDisabled ==
    /\ ~getImageBtnDisabled
    /\ \E s \in Slots : ~Active(s)
    /\ fetches' = SetFetch(MarkFetches(fetches), FreeSlot,
                     [Idle EXCEPT !.pc = "fetching", !.originalBtnText = getImageBtnText,
                                  !.cacheAtClick = lastFetchedItems])
    /\ getImageBtnDisabled' = FALSE
    /\ getImageBtnText' = LoadingLabel
    /\ gallery' = Placeholder("loading", "")
    /\ galleryBusy' = TRUE
    /\ timers' = MarkOld(MarkRaced(timers))
    /\ UNCHANGED <<lastFetchedItems, startVal, endVal, modal>>

\* A click on the fetch button (a disabled button dispatches no click): the
\* call up to await fetch(apodData).
FetchClick ==
    /\ ~getImageBtnDisabled
    /\ \E s \in Slots : ~Active(s)
    /\ fetches' = SetFetch(MarkFetches(fetches), FreeSlot,
                     [Idle EXCEPT !.pc = "fetching", !.originalBtnText = getImageBtnText,
                                  !.cacheAtClick = lastFetchedItems])
    /\ getImageBtnDisabled' = TRUE
    /\ getImageBtnText' = LoadingLabel
    /\ gallery' = Placeholder("loading", "")
    /\ galleryBusy' = TRUE
    /\ timers' = MarkOld(MarkRaced(timers))
    /\ UNCHANGED <<lastFetchedItems, startVal, endVal, modal>>

\* fetch() resolves with a success status: on to await res.json()
FetchResolvesOk(s) ==
    /\ fetches[s].pc = "fetching"
    /\ \E body \in Feeds :
          fetches' = SetFetch(fetches, s, [fetches[s] EXCEPT !.pc = "parsing", !.body = body])
    /\ UNCHANGED <<getImageBtnDisabled, getImageBtnText, gallery, galleryBusy,
                   lastFetchedItems, startVal, endVal, timers, modal>>

\* fetch() resolves with a non-success status: !res.ok throws
FetchResolvesNotOk(s) ==
    /\ fetches[s].pc = "fetching"
    /\ AfterBody(s, Throw(fetches[s], NotOkMessage), lastFetchedItems, FALSE)

\* fetch() rejects (the transport failed)
FetchRejects(s) ==
    /\ fetches[s].pc = "fetching"
    /\ AfterBody(s, Throw(fetches[s], RejectMessage), lastFetchedItems, FALSE)

JsonResolves_cacheOnError(s) ==
    /\ fetches[s].pc = "parsing"
    /\ LET f == fetches[s] IN
       IF f.body.kind = "malformed"
       THEN AfterBody(s, Throw(f, ParseMessage), Items(<<>>), TRUE)
       ELSE IF f.body.kind = "null"
       THEN AfterBody(s, Throw(f, NullMessage), Items(<<>>), TRUE)
       ELSE AfterBody(s, [f EXCEPT !.items = Normalize(f.body)],
                      Items(Normalize(f.body)), TRUE)

\* res.json() settles: a parse error or Object.values(null) throws; otherwise
\* the items are normalized and cached
JsonResolves(s) ==
    /\ fetches[s].pc = "parsing"
    /\ LET f == fetches[s] IN
       IF f.body.kind = "malformed"
       THEN AfterBody(s, Throw(f, ParseMessage), lastFetchedItems, FALSE)
       ELSE IF f.body.kind = "null"
       THEN AfterBody(s, Throw(f, NullMessage), lastFetchedItems, FALSE)
       ELSE AfterBody(s, [f EXCEPT !.items = Normalize(f.body)],
                      Items(Normalize(f.body)), TRUE)

\* the minimum-loading timer fires
MinWaitElapsed(s) ==
    /\ fetches[s].pc = "minwait"
    /\ OldTimersFired
    /\ AfterMinWait(s, fetches[s], lastFetchedItems, FALSE)

\* the oldest 380 ms timer fires and it is the fade wait of a fetch
FetchFadeDone ==
    /\ timers # <<>>
    /\ Head(timers).owner # 0
    /\ Complete(Head(timers).owner, fetches[Head(timers).owner],
                lastFetchedItems, Tail(timers))

\* ------------------------------------------------------ the date filter
\* the oldest 380 ms timer fires and it is a transitionToGallery wait
FilterFadeDone ==
    /\ timers # <<>>
    /\ Head(timers).owner = 0
    /\ gallery' = buildGallery(Head(timers).items)
    /\ timers' = MarkRaced(Tail(timers))
    /\ fetches' = MarkFetches(fetches)
    /\ UNCHANGED <<getImageBtnDisabled, getImageBtnText, galleryBusy,
                   lastFetchedItems, startVal, endVal, modal>>

\* a synchronous write of the grid by applyFilter
WriteGallery(g) ==
    /\ gallery' = g
    /\ timers' = MarkRaced(timers)
    /\ fetches' = MarkFetches(fetches)

transitionToGallery(items) ==
    IF HasPlaceholder(gallery)
    THEN /\ FilterTimers < MaxTimers
         /\ timers' = Append(timers, Timer(0, items))
         /\ UNCHANGED <<gallery, fetches>>
    ELSE WriteGallery(buildGallery(items))

\* applyFilter with the two inputs holding sv and ev
applyFilter(sv, ev) ==
    /\ startVal' = sv
    /\ endVal' = ev
    /\ UNCHANGED <<getImageBtnDisabled, getImageBtnText, galleryBusy, lastFetchedItems,
                   modal>>
    /\ IF lastFetchedItems.isNull
       THEN WriteGallery(Placeholder("nodata", ""))
       ELSE IF sv = EmptyStr /\ ev = EmptyStr
       THEN transitionToGallery(ImagesOnly(lastFetchedItems.items))
       ELSE LET filtered == FilterRange(lastFetchedItems.items, sv, ev)
            IN  IF filtered = <<>>
                THEN WriteGallery(Placeholder("nomatch", ""))
                ELSE transitionToGallery(filtered)

\* a click on the filter button
FilterBtnClick == \E sv, ev \in DateInputs : applyFilter(sv, ev)

\* Enter pressed in one of the two date inputs
DateInputEnter == \E sv, ev \in DateInputs : applyFilter(sv, ev)

\* ---------------------------------------------------- overlay wiring
page == <<getImageBtnDisabled, getImageBtnText, gallery, galleryBusy,
          lastFetchedItems, startVal, endVal, fetches, timers>>

\* a click on a card: its listener opens the overlay on the card's record
CardClick ==
    /\ \E i \in 1..Len(gallery.cards) : modal' = openModal(gallery.cards[i].item)
    /\ UNCHANGED page

\* a click on the overlay's background
ModalOverlayClick ==
    /\ modal' = closeModal(modal)
    /\ UNCHANGED page

\* a click on the overlay's close control
ModalCloseClick ==
    /\ modal' = closeModal(modal)
    /\ UNCHANGED page

EscapeKey_enablesButton ==
    /\ modal' = IF modal.show THEN closeModal(modal) ELSE modal
    /\ getImageBtnDisabled' = FALSE
    /\ UNCHANGED <<getImageBtnText, gallery, galleryBusy, lastFetchedItems,
                   startVal, endVal, fetches, timers>>

\* Escape pressed: closes only if modal.classList.contains('show')
EscapeKey ==
    /\ modal' = IF modal.show THEN closeModal(modal) ELSE modal
    /\ UNCHANGED page

\* --------------------------------------------------- the specifications
Next ==
    \/ FetchClick /\ UNCHANGED latest
    \/ \E s \in Slots : FetchResolvesOk(s) /\ UNCHANGED latest
    \/ \E s \in Slots : FetchResolvesNotOk(s) /\ UNCHANGED latest
    \/ \E s \in Slots : FetchRejects(s) /\ UNCHANGED latest
    \/ \E s \in Slots : JsonResolves(s) /\ UNCHANGED latest
    \/ \E s \in Slots : MinWaitElapsed(s) /\ UNCHANGED latest
    \/ FetchFadeDone /\ UNCHANGED latest
    \/ FilterFadeDone /\ UNCHANGED latest
    \/ FilterBtnClick /\ UNCHANGED latest
    \/ DateInputEnter /\ UNCHANGED latest
    \/ CardClick /\ UNCHANGED latest
    \/ ModalOverlayClick /\ UNCHANGED latest
    \/ ModalCloseClick /\ UNCHANGED latest
    \/ EscapeKey /\ UNCHANGED latest

Spec == Init /\ [][Next]_vars

\* The network answers and pending timers fire: every continuation that stays
\* possible is eventually run.  User events (clicks, key presses) need not occur.
FairSpec ==
    /\ Spec
    /\ \A s \in Slots :
          /\ WF_vars(/\ FetchResolvesOk(s) \/ FetchResolvesNotOk(s) \/ FetchRejects(s)
                     /\ UNCHANGED latest)
          /\ WF_vars(JsonResolves(s) /\ UNCHANGED latest)
          /\ WF_vars(MinWaitElapsed(s) /\ UNCHANGED latest)
    /\ WF_vars((FetchFadeDone \/ FilterFadeDone) /\ UNCHANGED latest)

\* The same steps with the history variable latest kept: each step records
\* which action was triggered last and what it has written.
NextHist ==
    \/ FetchClick /\ latest' = FetchTriggered
    \/ \E s \in Slots : FetchResolvesOk(s) /\ latest' = FetchStepped
    \/ \E s \in Slots : FetchResolvesNotOk(s) /\ latest' = FetchStepped
    \/ \E s \in Slots : FetchRejects(s) /\ latest' = FetchStepped
    \/ \E s \in Slots : JsonResolves(s) /\ latest' = FetchStepped
    \/ \E s \in Slots : MinWaitElapsed(s) /\ latest' = FetchStepped
    \/ FetchFadeDone /\ latest' = FetchStepped
    \/ FilterFadeDone /\ latest' = FilterRendered
    \/ FilterBtnClick /\ latest' = FilterTriggered
    \/ DateInputEnter /\ latest' = FilterTriggered
    \/ CardClick /\ UNCHANGED latest
    \/ ModalOverlayClick /\ UNCHANGED latest
    \/ ModalCloseClick /\ UNCHANGED latest
    \/ EscapeKey /\ UNCHANGED latest

SpecHist == Init /\ [][NextHist]_vars

\* The filter alone, on every short record sequence a fetch could have cached,
\* from the state in which that fetch has ended and no timer is pending.
RecordPool == {RecA, RecB, RecC, RecD, RecN}

RecordSeqs == UNION {[1..n -> RecordPool] : n \in 0..MaxLen}

\* the state a fetch of seq leaves when it ends
InitFilter ==
    /\ modal = ModalClosed
    /\ getImageBtnDisabled = FALSE
    /\ getImageBtnText = DefaultLabel
    /\ lastFetchedItems \in {Items(seq) : seq \in RecordSeqs}
    /\ gallery = buildGallery(lastFetchedItems.items)
    /\ galleryBusy = FALSE
    /\ startVal = EmptyStr
    /\ endVal = EmptyStr
    /\ fetches = [s \in Slots |-> Idle]
    /\ timers = <<>>
    /\ latest = NoAction

NextFilter ==
    \/ FilterBtnClick /\ UNCHANGED latest
    \/ DateInputEnter /\ UNCHANGED latest
    \/ FilterFadeDone /\ UNCHANGED latest

SpecFilter == InitFilter /\ [][NextFilter]_vars

\* ------------------------------------------------------------- claims
AnyActive == \E s \in Slots : Active(s)

\* the messages the catch block can be handed
ErrorMessages == {NotOkMessage, RejectMessage, ParseMessage, NullMessage}

\* this step ends call s
Ends(s) == Active(s) /\ ~Active(s)'

\* this step ends call s and s has failed: it is already in the catch block, or
\* its fetch() fails now, or its body cannot be used
EndsFailed(s) ==
    /\ Ends(s)
    /\ \/ fetches[s].branch = "catch"
       \/ fetches[s].pc = "fetching"
       \/ fetches[s].pc = "parsing" /\ fetches[s].body.kind \in {"malformed", "null"}

EndsOk(s) == Ends(s) /\ ~EndsFailed(s)

\* C1: under FairSpec (the network answers, pending timers fire) every fetch
\* in flight ends, and in the state where it has ended the fetch button is
\* enabled again, whichever way the request went.
C1_TriggerReenabled ==
    \A s \in Slots : Active(s) ~> (~Active(s) /\ ~getImageBtnDisabled)

\* a fetch has failed and ended: the error is shown and the button is enabled
C1_Witness ==
    /\ ~AnyActive
    /\ gallery.ph = "error"
    /\ gallery.msg \in {NotOkMessage, ParseMessage}
    /\ ~getImageBtnDisabled

\* C2: at most one fetchAndShow call is in flight, and while one is in flight
\* the fetch button is disabled.
C2_OneFetchInFlight ==
    /\ Cardinality({s \in Slots : Active(s)}) <= 1
    /\ AnyActive => getImageBtnDisabled

\* a fetch is in its last wait, the button still disabled
C2_Witness ==
    /\ \E s \in Slots : fetches[s].pc = "fade"
    /\ getImageBtnDisabled

\* C3: the step that ends a failed fetch leaves the error placeholder with the
\* error's message in the grid, the button enabled and labelled as it was
\* before the click, and the busy indicator cleared.
C3_FailedFetchReleases ==
    [][\A s \in Slots : EndsFailed(s) =>
          /\ gallery'.ph = "error"
          /\ gallery'.cards = <<>>
          /\ gallery'.msg \in ErrorMessages
          /\ fetches[s].branch = "catch" => gallery'.msg = fetches[s].errMessage
          /\ fetches[s].pc = "parsing" /\ fetches[s].body.kind = "malformed"
                => gallery'.msg = ParseMessage
          /\ ~getImageBtnDisabled'
          /\ getImageBtnText' = fetches[s].originalBtnText
          /\ getImageBtnText' # LoadingLabel
          /\ ~galleryBusy']_vars

\* a fetch that got a non-success status has ended on a page whose button is
\* not labelled with the script's default
C3_Witness ==
    /\ ~AnyActive
    /\ gallery = Placeholder("error", NotOkMessage)
    /\ ~getImageBtnDisabled
    /\ getImageBtnText = "Get Space Images"
    /\ ~galleryBusy

\* position of an array-index key in ascending numeric order
KeyRank(k) == CHOOSE i \in 1..Len(IndexKeys) : IndexKeys[i] = k

\* member i of an object comes before member j in property order
PropertyBefore(keys, i, j) ==
    IF IsIndexKey(keys[i])
    THEN ~IsIndexKey(keys[j]) \/ KeyRank(keys[i]) < KeyRank(keys[j])
    ELSE ~IsIndexKey(keys[j]) /\ i < j

\* out is the record sequence of body: the array itself, or the object's
\* values arranged in property order
IsRecordSequenceOf(out, body) ==
    IF body.kind = "array" THEN out = body.items
    ELSE /\ Len(out) = Len(body.items)
         /\ \E p \in [1..Len(out) -> 1..Len(out)] :
               /\ \A i, j \in 1..Len(out) : i < j => PropertyBefore(body.keys, p[i], p[j])
               /\ \A i \in 1..Len(out) : out[i] = body.items[p[i]]

\* C4: the cache is null at start; when a fetch ends well the cache is exactly
\* the record sequence of its response; when a fetch ends failed the cache
\* is what it was at the click; nothing but a usable body changes the cache.
C4_CacheLifecycle ==
    /\ lastFetchedItems = NullItems
    /\ [][/\ \A s \in Slots :
               /\ EndsOk(s) =>
                     /\ ~lastFetchedItems'.isNull
                     /\ IsRecordSequenceOf(lastFetchedItems'.items, fetches[s].body)
               /\ EndsFailed(s) => lastFetchedItems' = fetches[s].cacheAtClick
          /\ lastFetchedItems' # lastFetchedItems =>
                \E s \in Slots :
                   /\ fetches[s].pc = "parsing"
                   /\ fetches[s].body.kind \in {"array", "object"}
                   /\ IsRecordSequenceOf(lastFetchedItems'.items, fetches[s].body)]_vars

\* a fetch has failed after an earlier one cached an object's values
C4_Witness ==
    /\ ~AnyActive
    /\ gallery.ph = "error"
    /\ lastFetchedItems = Items(<<RecA, RecN>>)

\* C5: while a fetch is loading (in flight, button disabled, busy indicator
\* set) the cache still holds what it held at the click.
C5_CacheSetOnlyAtCompletion ==
    \A s \in Slots :
       Active(s) /\ getImageBtnDisabled /\ galleryBusy
          => lastFetchedItems = fetches[s].cacheAtClick

\* C6: when a delayed render writes the grid (a fetch ending after its
\* minimum-loading or fade wait, a filter rendering after its fade wait), no
\* other handler has written the grid or the cache since that wait began.
C6_DelaysDoNotRace ==
    [][/\ FilterFadeDone => ~Head(timers).raced
       /\ FetchFadeDone => ~Head(timers).raced
       /\ \A s \in Slots : MinWaitElapsed(s) /\ Ends(s) => ~fetches[s].raced]_vars

\* C7: every card in the grid is the card of an image record.
C7_OnlyImageCards ==
    \A i \in 1..Len(gallery.cards) : gallery.cards[i].item.media_type = "image"

\* cards are shown from a filter with a bound while the cache holds a video
C7_Witness ==
    /\ gallery.cards # <<>>
    /\ startVal # EmptyStr
    /\ ~lastFetchedItems.isNull
    /\ \E i \in 1..Len(lastFetchedItems.items) :
          lastFetchedItems.items[i].media_type # "image"

\* out is the subsequence of the records of in that pred holds of, in order
IsSubseqWhere(out, in, pred(_)) ==
    \E f \in [1..Len(out) -> 1..Len(in)] :
       /\ \A i, j \in 1..Len(out) : i < j => f[i] < f[j]
       /\ \A k \in 1..Len(in) : pred(in[k]) <=> \E i \in 1..Len(out) : f[i] = k
       /\ \A i \in 1..Len(out) : out[i] = in[f[i]]

IsImage(it) == it.media_type = "image"

\* the grid shows exactly the records of seq as cards, in order
Shows(g, seq) ==
    /\ Len(g.cards) = Len(seq)
    /\ \A i \in 1..Len(seq) :
          /\ g.cards[i].item = seq[i]
          /\ g.cards[i].src = seq[i].url
    /\ (seq = <<>>) = (g.ph = "noimages")

\* this step hands a sequence to the renderer: at once when the grid holds no
\* placeholder, else through a new 380 ms timer
Hands(ok(_)) ==
    IF HasPlaceholder(gallery)
    THEN /\ Len(timers') = Len(timers) + 1
         /\ timers'[Len(timers')].owner = 0
         /\ ok(timers'[Len(timers')].items)
         /\ gallery' = gallery
    ELSE \E seq \in {lastFetchedItems.items} \cup RecordSeqs : ok(seq) /\ Shows(gallery', seq)

\* C8: applyFilter with both inputs empty, on a loaded cache, hands the
\* renderer exactly the image records of the cache in their order, and the
\* render that follows shows exactly the records handed over.
C8_NoBoundsShowsAllImages ==
    [][/\ applyFilter(EmptyStr, EmptyStr) /\ ~lastFetchedItems.isNull
            => Hands(LAMBDA seq : IsSubseqWhere(seq, lastFetchedItems.items, IsImage))
       /\ FilterFadeDone => Shows(gallery', Head(timers).items)]_vars

\* an unbounded filter, applied while "no match" was shown, waits to render
\* the one image of a cache that also holds a video
C8_Witness ==
    /\ startVal = EmptyStr /\ endVal = EmptyStr
    /\ lastFetchedItems = Items(<<RecB, RecC>>)
    /\ gallery.ph = "nomatch"
    /\ timers # <<>>
    /\ timers[Len(timers)].items = <<RecC>>

\* a is a later date than b, read off the strings
DateAfter(a, b) ==
    \/ a[1] > b[1]
    \/ a[1] = b[1] /\ a[2] > b[2]
    \/ a[1] = b[1] /\ a[2] = b[2] /\ a[3] > b[3]

ValidDates == (DateInputs \ {EmptyStr}) \cup {<<2023, 12, 31>>, <<2024, 2, 29>>}

\* C9: on the cached records, filtering with start = a, end = b, a after b,
\* gives what filtering with start = b, end = a gives, and gives exactly the
\* image records dated from b to a.
C9_SwappedBoundsSameResult ==
    ~lastFetchedItems.isNull =>
       \A a, b \in ValidDates :
          DateAfter(a, b) =>
             /\ FilterRange(lastFetchedItems.items, a, b)
                   = FilterRange(lastFetchedItems.items, b, a)
             /\ \A i \in 1..Len(lastFetchedItems.items) :
                   LET it == lastFetchedItems.items[i] IN
                   (IsImage(it) /\ it.date # EmptyStr
                      /\ ~DateAfter(b, it.date) /\ ~DateAfter(it.date, a))
                   => \E k \in 1..Len(FilterRange(lastFetchedItems.items, a, b)) :
                         FilterRange(lastFetchedItems.items, a, b)[k] = it

\* a filter with start after end has rendered the records in between
C9_Witness ==
    /\ startVal # EmptyStr /\ endVal # EmptyStr
    /\ DateAfter(startVal, endVal)
    /\ lastFetchedItems = Items(<<RecA, RecC>>)
    /\ Shows(gallery, <<RecA, RecC>>)

\* a is on or before b, as dates; false when either is no date
OnOrBefore(a, b) == a # EmptyStr /\ b # EmptyStr /\ ~DateAfter(a, b)

\* the bounds as the engine uses them: exchanged when both are given and the
\* start is after the end
LowerBound(sv, ev) ==
    IF sv # EmptyStr /\ ev # EmptyStr /\ DateAfter(sv, ev) THEN ev ELSE sv
UpperBound(sv, ev) ==
    IF sv # EmptyStr /\ ev # EmptyStr /\ DateAfter(sv, ev) THEN sv ELSE ev

\* the claim's test for one record
InRange(it, sv, ev) ==
    /\ IsImage(it)
    /\ LowerBound(sv, ev) # EmptyStr => OnOrBefore(LowerBound(sv, ev), it.date)
    /\ UpperBound(sv, ev) # EmptyStr => OnOrBefore(it.date, UpperBound(sv, ev))

\* C10: applyFilter with at least one bound, on a loaded cache, keeps a record
\* if and only if it is an image and lower <= record.date for a given lower
\* bound and record.date <= upper for a given upper bound: "no match" is
\* shown when no record passes, else exactly the passing records are handed
\* to the renderer.
C10_InclusiveRange ==
    [][\A sv, ev \in DateInputs :
          (sv # EmptyStr \/ ev # EmptyStr) /\ ~lastFetchedItems.isNull
             /\ applyFilter(sv, ev)
          => IF \E i \in 1..Len(lastFetchedItems.items) :
                   InRange(lastFetchedItems.items[i], sv, ev)
             THEN Hands(LAMBDA seq : IsSubseqWhere(seq, lastFetchedItems.items,
                                                   LAMBDA it : InRange(it, sv, ev)))
             ELSE gallery' = Placeholder("nomatch", "")]_vars

\* the records of the cards of grid g, in the order of the cards
CardItems(g) == [i \in 1..Len(g.cards) |-> g.cards[i].item]

\* every card of grid g has its record's url as image and "title — date" as
\* caption, and a grid with cards holds no placeholder
CardsWellFormed(g) ==
    /\ \A i \in 1..Len(g.cards) :
          /\ g.cards[i].src = g.cards[i].item.url
          /\ g.cards[i].caption = <<g.cards[i].item.title, g.cards[i].item.date>>
    /\ g.cards # <<>> => g.ph = "none"

\* the sequence that call s hands to buildGallery in the step that ends it
RenderInput(s) ==
    IF fetches[s].pc = "parsing" THEN lastFetchedItems'.items ELSE fetches[s].items

\* render(seq) as claim C11 words it: a card for every record of seq
RendersEveryRecord(g, seq) ==
    /\ CardsWellFormed(g)
    /\ CardItems(g) = seq
    /\ (seq = <<>>) = (g.ph = "noimages")

\* render(seq) with a card for every image record of seq
RendersImageRecords(g, seq) ==
    /\ CardsWellFormed(g)
    /\ IsSubseqWhere(CardItems(g), seq, IsImage)
    /\ (CardItems(g) = <<>>) = (g.ph = "noimages")

\* C11 as stated: every render (a filter's delayed render, a fetch's render of
\* what it has fetched) replaces the grid by one card per record of its input,
\* in input order, captioned "title — date", and by the "no images"
\* placeholder with no cards exactly when its input is empty.
C11_OneCardPerRecord ==
    [][/\ FilterFadeDone => RendersEveryRecord(gallery', Head(timers).items)
       /\ \A s \in Slots : EndsOk(s) => RendersEveryRecord(gallery', RenderInput(s))]_vars

\* C11 amended: every render replaces the grid by one card per IMAGE record of
\* its input, in input order, captioned "title — date", and by the "no images"
\* placeholder with no cards exactly when its input holds no image record.
C11_OneCardPerImageRecord ==
    [][/\ FilterFadeDone => RendersImageRecords(gallery', Head(timers).items)
       /\ \A s \in Slots : EndsOk(s) => RendersImageRecords(gallery', RenderInput(s))]_vars

\* a fetch of an image and a video has ended and rendered the one image
C11_Witness ==
    /\ ~AnyActive
    /\ timers = <<>>
    /\ ~getImageBtnDisabled
    /\ lastFetchedItems = Items(<<RecA, RecB>>)
    /\ startVal = EmptyStr /\ endVal = EmptyStr
    /\ gallery = Cards(<<RecA>>)

\* the fetch-busy state: the button, the busy indicator, where each call is
FetchBusy ==
    <<getImageBtnDisabled, getImageBtnText, galleryBusy, [s \in Slots |-> fetches[s].pc]>>

\* C12: applyFilter with at least one bound, on a loaded cache none of whose
\* image records is dated within the bounds, shows the "no match" placeholder
\* with no cards and leaves the cache, the fetch-busy state and the overlay as
\* they were.
C12_NoMatchPlaceholder ==
    [][\A sv, ev \in DateInputs :
          /\ sv # EmptyStr \/ ev # EmptyStr
          /\ ~lastFetchedItems.isNull
          /\ applyFilter(sv, ev)
          /\ ~\E i \in 1..Len(lastFetchedItems.items) :
                 InRange(lastFetchedItems.items[i], sv, ev)
          => /\ gallery' = Placeholder("nomatch", "")
             /\ UNCHANGED <<lastFetchedItems, FetchBusy, modal>>]_vars

\* C13: a click on a card opens the overlay on the card's record: the overlay
\* is shown and not aria-hidden, its image is the record's hdurl when the
\* record has one and its url otherwise, and its title, date and explanation
\* are the record's.
C13_OpenShowsRecord ==
    [][CardClick =>
          \E i \in 1..Len(gallery.cards) :
             LET item == gallery.cards[i].item IN
             /\ modal'.show /\ ~modal'.ariaHidden
             /\ item.hdurl # "" => modal'.src = item.hdurl
             /\ item.hdurl = "" => modal'.src = item.url
             /\ modal'.title = item.title
             /\ modal'.date = item.date
             /\ modal'.explanation = item.explanation]_vars

\* the overlay is open on a record without hdurl, showing its url
C13_Witness ==
    /\ modal.show
    /\ modal.title = RecA.title
    /\ modal.src = RecA.url
    /\ \E i \in 1..Len(gallery.cards) : gallery.cards[i].item = RecA

\* C14: from an open overlay, a click on the close control, a click on the
\* background and the Escape key each leave the overlay hidden (class removed,
\* aria-hidden set) with its image source cleared; with the overlay closed,
\* each of the three leaves every variable as it was.
C14_DismissClosesAndIsIdempotent ==
    [][/\ modal.show /\ (ModalCloseClick \/ ModalOverlayClick \/ EscapeKey)
            => ~modal'.show /\ modal'.ariaHidden /\ modal'.src = ""
       /\ ~modal.show /\ ModalCloseClick => UNCHANGED vars
       /\ ~modal.show /\ ModalOverlayClick => UNCHANGED vars
       /\ ~modal.show /\ EscapeKey => UNCHANGED vars]_vars

\* the overlay was open on record N, which has an hdurl, and has been
\* dismissed: hidden, image cleared, the other slots still N's
C14_Witness ==
    /\ ~modal.show
    /\ modal.ariaHidden
    /\ modal.src = ""
    /\ modal.title = RecN.title
    /\ modal.alt = RecN.title

\* a step of the overlay
OverlayStep == CardClick \/ ModalCloseClick \/ ModalOverlayClick \/ EscapeKey

\* a step of a fetch or of a filter
PageStep ==
    \/ FetchClick
    \/ \E s \in Slots :
          \/ FetchResolvesOk(s) \/ FetchResolvesNotOk(s) \/ FetchRejects(s)
          \/ JsonResolves(s) \/ MinWaitElapsed(s)
    \/ FetchFadeDone
    \/ FilterFadeDone
    \/ FilterBtnClick
    \/ DateInputEnter

\* C15: opening or closing the overlay leaves the fetch button's disabled flag
\* and label, aria-busy, the cache and the grid as they were, and every step
\* of a fetch or a filter leaves the overlay (shown or not, and every slot) as
\* it was: no step that changes the overlay is a step of a fetch or a filter.
C15_TogglesIndependent ==
    [][/\ OverlayStep => UNCHANGED <<getImageBtnDisabled, getImageBtnText, galleryBusy,
                                     lastFetchedItems, gallery>>
       /\ modal' # modal => ~PageStep]_vars

\* the overlay is open while a fetch is in flight
C15_Witness ==
    /\ modal.show
    /\ AnyActive
    /\ getImageBtnDisabled
    /\ galleryBusy

\* no fetch is in flight and no 380 ms timer is pending
Quiescent == ~AnyActive /\ timers = <<>>

\* this step is a delayed render: a transitionToGallery timer fires, or a
\* fetchAndShow call writes its result or error after its waits
DelayedRender == FilterFadeDone \/ \E s \in Slots : Ends(s)

\* C16: (always) once no fetch is in flight and no timer is pending, the grid
\* holds what the action triggered last has written; and (every step) a
\* delayed render that is not the latest action's own happens only while the
\* latest action has written nothing to the grid yet.
C16_LatestActionWins ==
    /\ [](Quiescent /\ latest.by # "none" => latest.done /\ gallery = latest.grid)
    /\ [][DelayedRender /\ latest' = latest => latest.grid = Unwritten]_vars

\* C17: while a fetchAndShow call is in flight (from the click until the call
\* has written its result or its error), the grid holds the loading
\* placeholder and nothing else.
C17_OnlyLoadingWhileBusy ==
    AnyActive => gallery = Placeholder("loading", "")

\* the labels the fetch button can carry when the page has loaded
InitialLabels == {DefaultLabel, "Get Space Images"}

\* C18: (always) the fetch button is disabled exactly when the grid has
\* aria-busy, and exactly when the button reads "Loading..."; and whatever
\* label the button carries at first, it carries that label whenever it is
\* enabled.
C18_BusyPartsAgree ==
    /\ [](/\ getImageBtnDisabled <=> galleryBusy
          /\ getImageBtnDisabled <=> getImageBtnText = LoadingLabel)
    /\ \A l \in InitialLabels :
          getImageBtnText = l => [](~getImageBtnDisabled => getImageBtnText = l)

\* a fetch that began under the label "Get Space Images" has ended, in error,
\* and the button is enabled under that label again
C18_Witness ==
    /\ ~getImageBtnDisabled
    /\ ~galleryBusy
    /\ getImageBtnText = "Get Space Images"
    /\ gallery.ph = "error"
    /\ ~lastFetchedItems.isNull

\* seq holds no record without a valid date
AllDated(seq) == \A i \in 1..Len(seq) : NewDate(seq[i].date) # NaN

\* C19: applyFilter with at least one bound, on a loaded cache, shows "no
\* match" or hands the renderer a sequence without any record whose date is
\* absent or invalid.
C19_UndatedExcluded ==
    [][\A sv, ev \in DateInputs :
          (sv # EmptyStr \/ ev # EmptyStr) /\ ~lastFetchedItems.isNull
             /\ applyFilter(sv, ev)
          => \/ gallery' = Placeholder("nomatch", "")
             \/ Hands(AllDated)]_vars

====
